---- MODULE Spec2Model ----
(***************************************************************************)
(* A model of the clip renderer: the transcribe route, the client's        *)
(* handleGenerateVideo and the generate-video POST handler with its        *)
(* timestamp codec, caption validation, text rasterizer and filter graph.  *)
(*                                                                         *)
(* Numbers.  A JavaScript number holding a time is an integer count of     *)
(* ticks, TicksPerMs ticks to the millisecond, so that values finer than a *)
(* millisecond exist; the arithmetic is exact (binary floating-point       *)
(* rounding is not modelled).  NaN and undefined are two reserved values   *)
(* below every time of the model.                                          *)
(*                                                                         *)
(* Strings.  A string is a sequence of one-character strings.              *)
(***************************************************************************)
EXTENDS Integers, Sequences, FiniteSets, TLC

\* ------------------------------------------------------------ bounds
MaxCaptions == 2
TicksPerMs == 4

\* ------------------------------------------------- program constants
MsPerSec == 1000

Sec == MsPerSec * TicksPerMs

\* ------------------------------------------------------ JS numbers
NaN == -(2^30)
Undefined == NaN - 1

IsNum(x) == x # NaN /\ x # Undefined

\* a - b, a + b: NaN when either side is NaN.
JsSub(a, b) == IF IsNum(a) /\ IsNum(b) THEN a - b ELSE NaN
JsAdd(a, b) == IF IsNum(a) /\ IsNum(b) THEN a + b ELSE NaN

\* Comparisons: false when either side is NaN.
JsGe(a, b) == IsNum(a) /\ IsNum(b) /\ a >= b
JsLe(a, b) == IsNum(a) /\ IsNum(b) /\ a <= b
JsLt(a, b) == IsNum(a) /\ IsNum(b) /\ a < b
JsGt(a, b) == IsNum(a) /\ IsNum(b) /\ a > b

\* Math.max(a, b): NaN when either side is NaN.
MathMax(a, b) == IF IsNum(a) /\ IsNum(b) THEN (IF a >= b THEN a ELSE b) ELSE NaN

\* a % b of JavaScript for b > 0: the sign of the result is that of a.
JsRem(a, b) == IF a >= 0 THEN a % b ELSE -((-a) % b)

\* ------------------------------------------------------ JS strings
Digits == <<"0", "1", "2", "3", "4", "5", "6", "7", "8", "9">>

IsDigit(c) == \E d \in 1..10 : Digits[d] = c

DigitVal(c) == (CHOOSE d \in 1..10 : Digits[d] = c) - 1

\* String.prototype.split(sep) for a one-character separator.
RECURSIVE Split(_, _)
Split(s, sep) ==
  IF \A i \in 1..Len(s) : s[i] # sep
    THEN <<s>>
    ELSE LET i == CHOOSE j \in 1..Len(s) :
                    s[j] = sep /\ \A k \in 1..(j - 1) : s[k] # sep
         IN  <<SubSeq(s, 1, i - 1)>> \o Split(SubSeq(s, i + 1, Len(s)), sep)

\* String.prototype.padEnd(n, c) and padStart(n, c): never shorten.
RECURSIVE PadEnd(_, _, _)
PadEnd(s, n, c) == IF Len(s) >= n THEN s ELSE PadEnd(Append(s, c), n, c)

RECURSIVE PadStart(_, _, _)
PadStart(s, n, c) == IF Len(s) >= n THEN s ELSE PadStart(<<c>> \o s, n, c)

\* String.prototype.trim(): leading and trailing spaces removed.
RECURSIVE TrimStart(_)
TrimStart(s) == IF s # <<>> /\ Head(s) = " " THEN TrimStart(Tail(s)) ELSE s

RECURSIVE TrimEnd(_)
TrimEnd(s) ==
  IF s # <<>> /\ s[Len(s)] = " " THEN TrimEnd(SubSeq(s, 1, Len(s) - 1)) ELSE s

Trim(s) == TrimEnd(TrimStart(s))

\* Number.prototype.toString() of an integer (or NaN).
RECURSIVE NatToString(_)
NatToString(n) ==
  IF n < 10 THEN <<Digits[n + 1]>>
  ELSE Append(NatToString(n \div 10), Digits[(n % 10) + 1])

NumToString(n) ==
  IF ~IsNum(n) THEN <<"N", "a", "N">>
  ELSE IF n < 0 THEN <<"-">> \o NatToString(-n)
  ELSE NatToString(n)

\* parseInt(s, 10): leading spaces skipped, an optional sign, then the
\* longest run of digits; NaN when there is no digit.
RECURSIVE DigitsValue(_, _)
DigitsValue(s, acc) ==
  IF s # <<>> /\ IsDigit(Head(s))
    THEN DigitsValue(Tail(s), acc * 10 + DigitVal(Head(s)))
    ELSE acc

ParseInt(s) ==
  LET t == TrimStart(s)
      signed == t # <<>> /\ Head(t) \in {"-", "+"}
      u == IF signed THEN Tail(t) ELSE t
  IN  IF u = <<>> \/ ~IsDigit(Head(u)) THEN NaN
      ELSE IF signed /\ Head(t) = "-" THEN -DigitsValue(u, 0)
      ELSE DigitsValue(u, 0)

\* ------------------------------------------------- timestamp codec
\* timeToSeconds: the result in ticks.  No statement of the try block can
\* throw for a string argument, so the catch branch is never taken.
timeToSeconds(timeStr) ==
  IF timeStr = <<>> THEN 0
  ELSE
    LET parts == Split(timeStr, ":")
        secondsParts == Split(parts[Len(parts)], ".")
        hours == IF Len(parts) > 2 THEN ParseInt(parts[1]) ELSE 0
        minutes == IF Len(parts) > 1 THEN ParseInt(parts[Len(parts) - 1]) ELSE 0
        seconds == ParseInt(secondsParts[1])
        milliseconds == IF Len(secondsParts) > 1
                          THEN ParseInt(PadEnd(secondsParts[2], 3, "0"))
                          ELSE 0
    IN  IF IsNum(hours) /\ IsNum(minutes) /\ IsNum(seconds) /\ IsNum(milliseconds)
          THEN (hours * 3600 + minutes * 60 + seconds) * Sec
               + milliseconds * TicksPerMs
          ELSE NaN

\* Math.round(x * 1000) for x a number of ticks below one second:
\* floor(x * 1000 + 1/2).
RoundToMs(ticks) == (2 * ticks + TicksPerMs) \div (2 * TicksPerMs)

\* Mutant: the milliseconds are written without padStart(3, '0').
formatTimestampUnpaddedMs(seconds) ==
  LET nan == ~IsNum(seconds)
      hours == IF nan THEN NaN ELSE seconds \div (3600 * Sec)
      minutes == IF nan THEN NaN ELSE JsRem(seconds, 3600 * Sec) \div (60 * Sec)
      remainingSeconds == IF nan THEN NaN ELSE JsRem(seconds, 60 * Sec)
      wholeSeconds == IF nan THEN NaN ELSE remainingSeconds \div Sec
      milliseconds == IF nan THEN NaN
                      ELSE RoundToMs(remainingSeconds - wholeSeconds * Sec)
  IN  PadStart(NumToString(hours), 2, "0") \o <<":">>
        \o PadStart(NumToString(minutes), 2, "0") \o <<":">>
        \o PadStart(NumToString(wholeSeconds), 2, "0") \o <<".">>
        \o NumToString(milliseconds)

\* formatTimestamp: "HH:MM:SS.mmm" from a number of ticks.
formatTimestamp(seconds) ==
  LET nan == ~IsNum(seconds)
      hours == IF nan THEN NaN ELSE seconds \div (3600 * Sec)
      minutes == IF nan THEN NaN ELSE JsRem(seconds, 3600 * Sec) \div (60 * Sec)
      remainingSeconds == IF nan THEN NaN ELSE JsRem(seconds, 60 * Sec)
      wholeSeconds == IF nan THEN NaN ELSE remainingSeconds \div Sec
      milliseconds == IF nan THEN NaN
                      ELSE RoundToMs(remainingSeconds - wholeSeconds * Sec)
  IN  PadStart(NumToString(hours), 2, "0") \o <<":">>
        \o PadStart(NumToString(minutes), 2, "0") \o <<":">>
        \o PadStart(NumToString(wholeSeconds), 2, "0") \o <<".">>
        \o PadStart(NumToString(milliseconds), 3, "0")

\* ------------------------------------------------------ rasterizer
StartsWith(s, prefix) ==
  Len(s) >= Len(prefix) /\ SubSeq(s, 1, Len(prefix)) = prefix

\* The canvas's measureText: every character as wide as half the font size.
MeasureText(line, fontSize) == Len(line) * (fontSize \div 2)

RECURSIVE WrapFrom(_, _, _, _, _, _)

\* Mutant: the first line is measured against a width one character
\* smaller than the other lines.
WrapFromFirstLineIndent(words, i, lines, currentLine, width, fontSize) ==
  IF i > Len(words) THEN Append(lines, currentLine)
  ELSE LET word == words[i]
           testLine == currentLine \o <<" ">> \o word
           limit == IF lines = <<>> THEN width - (fontSize \div 2) ELSE width
       IN  IF MeasureText(testLine, fontSize) > limit
             THEN WrapFrom(words, i + 1, Append(lines, currentLine), word,
                           width, fontSize)
             ELSE WrapFrom(words, i + 1, lines, testLine, width, fontSize)

\* The word-wrapping loop of createTextImage over words[i..], with the
\* lines emitted so far and the running line.
WrapFrom(words, i, lines, currentLine, width, fontSize) ==
  IF i > Len(words) THEN Append(lines, currentLine)
  ELSE LET word == words[i]
           testLine == currentLine \o <<" ">> \o word
       IN  IF MeasureText(testLine, fontSize) > width
             THEN WrapFrom(words, i + 1, Append(lines, currentLine), word,
                           width, fontSize)
             ELSE WrapFrom(words, i + 1, lines, testLine, width, fontSize)

\* Mutant: finalFontFamily is not replaced when the font cannot be loaded.
createTextImageWithoutFallback(text, width, fontSize, fontColor, fontFamily, fontOk) ==
  LET words == Split(text, " ")
      lines == WrapFrom(words, 2, <<>>, words[1], width, fontSize)
  IN  [kind |-> "image",
       text |-> text,
       lines |-> lines,
       width |-> width,
       height10 |-> Len(lines) * fontSize * 12 + 200,
       fontColor |-> fontColor,
       finalFontFamily |-> fontFamily]

\* createTextImage: the image drawn for the options.  fontOk is whether
\* ensureFontExists and registerFont succeeded.
createTextImage(text, width, fontSize, fontColor, fontFamily, fontOk) ==
  LET words == Split(text, " ")
      lines == WrapFrom(words, 2, <<>>, words[1], width, fontSize)
  IN  [kind |-> "image",
       text |-> text,
       lines |-> lines,
       width |-> width,
       \* lines.length * fontSize * 1.2 + 20, in tenths of a pixel
       height10 |-> Len(lines) * fontSize * 12 + 200,
       fontColor |-> fontColor,
       finalFontFamily |-> IF fontOk THEN fontFamily ELSE "Arial, sans-serif"]

\* ---------------------------------------------------------- layout
\* Mutant: the default of the switch is the horizontal canvas.
getCanvasDimensionsHorizontalDefault(aspectRatio) ==
  CASE aspectRatio = "16:9" -> [width |-> 1920, height |-> 1080]
    [] aspectRatio = "1:1" -> [width |-> 1080, height |-> 1080]
    [] aspectRatio = "4:5" -> [width |-> 1080, height |-> 1350]
    [] aspectRatio = "3:4" -> [width |-> 1080, height |-> 1440]
    [] aspectRatio = "9:16" -> [width |-> 1080, height |-> 1920]
    [] OTHER -> [width |-> 1920, height |-> 1080]

getCanvasDimensions(aspectRatio) ==
  CASE aspectRatio = "16:9" -> [width |-> 1920, height |-> 1080]
    [] aspectRatio = "1:1" -> [width |-> 1080, height |-> 1080]
    [] aspectRatio = "4:5" -> [width |-> 1080, height |-> 1350]
    [] aspectRatio = "3:4" -> [width |-> 1080, height |-> 1440]
    [] OTHER -> [width |-> 1080, height |-> 1920]

\* getVideoProcessing: the scale=W:H of the source video (crop is always '').
getVideoProcessing(aspectRatio) ==
  CASE aspectRatio = "16:9" -> [width |-> 1920, height |-> 1080]
    [] aspectRatio = "1:1" -> [width |-> 1080, height |-> 1080]
    [] aspectRatio = "4:5" -> [width |-> 1080, height |-> 1350]
    [] aspectRatio = "3:4" -> [width |-> 1080, height |-> 1440]
    [] OTHER -> [width |-> 1080, height |-> 1920]

\* A rect in canvas pixels; y2 is twice y, so that the half pixels of the
\* client's proportional placement are exact.
Rect(x, y2, width, height) == [x |-> x, y2 |-> y2, width |-> width, height |-> height]

\* The defaults of the request body's destructuring.
DefaultStyle ==
  [titlePosition |-> Rect(180, 2 * 120, 720, 200),
   captionPosition |-> Rect(180, 2 * 860, 720, 200),
   creditPosition |-> Rect(180, 2 * 1600, 720, 200),
   titleFontSize |-> 60, captionFontSize |-> 48, creditFontSize |-> 36,
   titleColor |-> "white", captionColor |-> "white", creditColor |-> "white",
   canvasBackgroundColor |-> "black"]

\* The style of a request: the fields it carries, the defaults otherwise
\* (a body carries all the style fields or none).
resolveStyle(overrides) == IF overrides = <<>> THEN DefaultStyle ELSE overrides[1]

\* canvasBackgroundColor.replace('#', '')
stripHash(color) == IF color = "#000000" THEN "000000" ELSE color

\* ---------------------------------------------------- filter graph
Pad(name) == [pad |-> name, n |-> -1]
PadN(name, n) == [pad |-> name, n |-> n]
In(index, stream) == [input |-> index, stream |-> stream]
IsPad(ref) == "pad" \in DOMAIN ref
IsInput(ref) == "input" \in DOMAIN ref

Node(op, ins, out, args) == [op |-> op, ins |-> ins, out |-> out, args |-> args]

\* Mutant: the last caption tested one past the end, so no overlay is last.
nextStreamPastEnd(index, count) ==
  IF index = count THEN Pad("final_video") ELSE PadN("with_caption", index)

\* The output pad of the caption overlay at index (0-based) among count.
nextStream(index, count) ==
  IF index = count - 1 THEN Pad("final_video") ELSE PadN("with_caption", index)

\* Mutant: the caption inputs counted from the credit image's index.
inputIndexFromCredit(index) == 2 + index

\* const inputIndex = 3 + index
inputIndex(index) == 3 + index

\* captionImages.forEach from index on: each callback pushes one overlay
\* reading currentStream and input inputIndex, and moves currentStream on.
RECURSIVE forEachCaption(_, _, _, _, _)
forEachCaption(captionImages, index, currentStream, filters, captionPosition) ==
  IF index >= Len(captionImages) THEN filters
  ELSE LET captionImg == captionImages[index + 1]
           next == nextStream(index, Len(captionImages))
       IN  forEachCaption(captionImages, index + 1, next,
             Append(filters,
               Node("overlay",
                    <<currentStream, In(inputIndex(index), "v")>>,
                    next,
                    [x |-> captionPosition.x, y2 |-> captionPosition.y2,
                     enable |-> <<captionImg.startTime, captionImg.endTime>>])),
             captionPosition)

\* Mutant: the no-op node reads a pad that no node produces.
noCaptionNodeUndefinedPad(currentStream) ==
  Node("null", <<Pad("with_credit")>>, Pad("final_video"), <<>>)

\* filters.push(`[${currentStream}]null[final_video]`) of the else branch.
noCaptionNode(currentStream) ==
  Node("null", <<currentStream>>, Pad("final_video"), <<>>)

\* The filters array of the engine promise, in the order of its pushes.
BuildFilters(captionImages, aspectRatio, duration, style) ==
  LET videoProcessing == getVideoProcessing(aspectRatio)
      canvasDimensions == getCanvasDimensions(aspectRatio)
      videoHeight == videoProcessing.height
      videoYPosition == (canvasDimensions.height - videoHeight) \div 2
      fixed ==
        << Node("scale", <<In(0, "v")>>, Pad("processed_video_base"),
                [width |-> videoProcessing.width, height |-> videoProcessing.height]),
           Node("color", <<>>, Pad("bg"),
                [c |-> stripHash(style.canvasBackgroundColor), width |-> canvasDimensions.width,
                 height |-> canvasDimensions.height, d |-> duration]),
           Node("overlay", <<Pad("bg"), Pad("processed_video_base")>>, Pad("base"),
                [x |-> "(W-w)/2", y2 |-> 2 * videoYPosition]),
           Node("overlay", <<Pad("base"), In(1, "v")>>, Pad("with_title"),
                [x |-> style.titlePosition.x, y2 |-> style.titlePosition.y2]),
           Node("overlay", <<Pad("with_title"), In(2, "v")>>, Pad("with_overlays"),
                [x |-> style.creditPosition.x, y2 |-> style.creditPosition.y2]) >>
      withCaptions ==
        IF Len(captionImages) > 0
          THEN forEachCaption(captionImages, 0, Pad("with_overlays"), fixed,
                              style.captionPosition)
          ELSE Append(fixed, noCaptionNode(Pad("with_overlays")))
  IN  Append(withCaptions,
             Node("acopy", <<In(0, "a")>>, Pad("final_audio"), <<>>))

\* ------------------------------------------------------ file system
Path(dir, base, n) == [dir |-> dir, base |-> base, n |-> n]

\* Mutant: the caption images are never added as inputs.
BuildInputsWithoutCaptions(tempDir, captionImages) ==
  << Path(tempDir, "downloaded_video.mp4", -1),
     Path(tempDir, "title.png", -1),
     Path(tempDir, "credit.png", -1) >>

\* The inputs of the ffmpeg command, in the order of its .input() calls.
BuildInputs(tempDir, captionImages) ==
  << Path(tempDir, "downloaded_video.mp4", -1),
     Path(tempDir, "title.png", -1),
     Path(tempDir, "credit.png", -1) >>
    \o [j \in 1..Len(captionImages) |-> captionImages[j].path]

\* fs.writeFile: the file's content is replaced.
WriteFile(fs, path, content) ==
  {f \in fs : f.path # path} \cup {[path |-> path, content |-> content]}

\* fs.rm(dir, {recursive, force}): the directory's files are gone.
RemoveDir(fs, dir) == {f \in fs : f.path.dir # dir}

\* ----------------------------------------------------------- inputs
Ts(ms) == formatTimestamp(ms * TicksPerMs)

Caption(start, end, text) == [start |-> start, end |-> end, text |-> text]

\* The captions a request may carry: inside the clip, across its start,
\* across its end, empty, inverted, unparsable, blank text.
RawCaptions ==
  { Caption(Ts(1500), Ts(2500), <<"a">>),
    Caption(Ts(2000), Ts(3000), <<"b">>),
    Caption(Ts(1500), Ts(2000), <<" ">>),
    Caption(Ts(500), Ts(2000), <<"c">>),
    Caption(Ts(3000), Ts(5000), <<"d">>),
    Caption(Ts(2000), Ts(2000), <<"e">>),
    Caption(<<"a", "b", "c">>, Ts(2000), <<"f">>),
    Caption(Ts(2500), Ts(1500), <<"g">>) }

\* rawStartTime and rawEndTime of a request.
TimeRanges ==
  { <<0, 3 * Sec>>, <<Sec, 4 * Sec>>, <<Undefined, 2 * Sec>>, <<Sec, Sec>>,
    <<-Sec, NaN>>, <<0, Sec \div 2>> }

Decor(title, credit, aspectRatio, youtubeUrl) ==
  [title |-> title, credit |-> credit, aspectRatio |-> aspectRatio,
   youtubeUrl |-> youtubeUrl]

Decors ==
  { Decor(<<"T">>, <<"@", "x">>, "9:16", "https://youtu.be/v"),
    Decor(<<>>, <<>>, "16:9", "https://youtu.be/v"),
    Decor(<<" ">>, <<"C", "r", "e", "d", "i", "t", ":", " ", "x">>, "7:7",
          "https://youtu.be/v"),
    Decor(<<"T">>, <<" ">>, "1:1", ""),
    Decor(<<"T">>, <<"@", "x">>, "4:5", "https://youtu.be/v"),
    Decor(<<"T">>, <<"@", "x">>, "3:4", "https://youtu.be/v"),
    Decor(<<"T">>, <<"@", "x">>, "1:1", "https://youtu.be/v") }

SeqsUpTo(S, n) == UNION {[1..k -> S] : k \in 0..n}

\* A request body; overrides is <<>> or <<style>>.
Body(captions, range, decor, overrides) ==
  [youtubeUrl |-> decor.youtubeUrl, startTime |-> range[1], endTime |-> range[2],
   captions |-> captions, title |-> decor.title, credit |-> decor.credit,
   aspectRatio |-> decor.aspectRatio, overrides |-> overrides]

\* The worked example of the graph builder: three captions in a 10 s clip.
ExampleBody ==
  Body(<< Caption(Ts(605), Ts(1375), <<"x">>),
          Caption(Ts(2195), Ts(2775), <<"y">>),
          Caption(Ts(4705), Ts(4775), <<"z">>) >>,
       <<0, 10 * Sec>>,
       Decor(<<"T">>, <<"@", "x">>, "9:16", "https://youtu.be/v"), <<>>)

Bodies ==
  { Body(c, t, d, <<>>) : c \in SeqsUpTo(RawCaptions, MaxCaptions),
                          t \in TimeRanges, d \in Decors }
    \cup {ExampleBody}

\* ------------------------------------------------------------ state
MaxRequests == 2
Reqs == 1..MaxRequests

VARIABLES
  h,        \* h[r]: the locals of the POST handler serving request r
  dirs,     \* the scratch directories that exist under /tmp
  files,    \* the files in them: [path, content]
  videos,   \* the files written to public/videos
  uuids,    \* the number of uuidv4() values drawn so far
  fontOk,   \* whether ensureFontExists/registerFont succeed
  client,   \* the browser: the clipper's selection and the saved clip
  tr,       \* the transcribe route: its request and its response
  codec,    \* a timestamp on its way through formatTimestamp and timeToSeconds
  raster    \* a text on its way through createTextImage

vars == <<h, dirs, files, videos, uuids, fontOk, client, tr, codec, raster>>

NoBody == Body(<<>>, <<Undefined, Undefined>>, Decor(<<>>, <<>>, "", ""), <<>>)
NoResponse == [status |-> 0]

\* A handler before POST is entered for it.
Idle ==
  [pc |-> "idle", body |-> NoBody, tempDir |-> -1, cleanupDone |-> FALSE,
   style |-> DefaultStyle, startTime |-> 0, endTime |-> 0, finalVideoName |-> -1,
   validatedCaptions |-> <<>>, captionImages |-> <<>>,
   filters |-> <<>>, inputs |-> <<>>, engineRuns |-> 0, rmAttempts |-> 0,
   response |-> NoResponse]

Incoming(body) == [Idle EXCEPT !.pc = "start", !.body = body]

\* ------------------------------------------------- POST: the handler
\* The catch block: 500 with the error's message, then the finally block.
Catch(l, message) ==
  [l EXCEPT !.pc = "finally",
            !.response = [status |-> 500, error |-> "Failed to generate video",
                          details |-> message]]

\* An early return inside the try block, then the finally block.
Return(l, response) == [l EXCEPT !.pc = "finally", !.response = response]

\* const startTime = ... ? rawStartTime : 0
resolveStartTime(rawStartTime) ==
  IF IsNum(rawStartTime) /\ rawStartTime >= 0 THEN rawStartTime ELSE 0

\* const endTime = ... ? rawEndTime : startTime + 30
resolveEndTime(rawEndTime, startTime) ==
  IF IsNum(rawEndTime) /\ rawEndTime > startTime THEN rawEndTime
  ELSE startTime + 30 * Sec

\* Mutant: the end of the caption is not tested against the clip duration.
captionIsValidNoEndTest(caption, startTime, clipDuration) ==
  LET captionStart == JsSub(timeToSeconds(caption.start), startTime)
      captionEnd == JsSub(timeToSeconds(caption.end), startTime)
  IN  /\ JsGe(captionStart, 0)
      /\ JsLt(captionStart, captionEnd)

\* The predicate of captions.filter.
captionIsValid(caption, startTime, clipDuration) ==
  LET captionStart == JsSub(timeToSeconds(caption.start), startTime)
      captionEnd == JsSub(timeToSeconds(caption.end), startTime)
  IN  /\ JsGe(captionStart, 0)
      /\ JsLe(captionEnd, clipDuration)
      /\ JsLt(captionStart, captionEnd)

\* Array.prototype.filter: the elements that pass, in their order.
RECURSIVE Filter(_, _, _)
Filter(captions, startTime, clipDuration) ==
  IF captions = <<>> THEN <<>>
  ELSE LET rest == Filter(Tail(captions), startTime, clipDuration)
       IN  IF captionIsValid(Head(captions), startTime, clipDuration)
             THEN <<Head(captions)>> \o rest
             ELSE rest

\* validatedCaptions of the handler.
validateCaptions(captions, startTime, endTime) ==
  IF Len(captions) > 0
    THEN Filter(captions, startTime, endTime - startTime)
    ELSE <<>>

\* Mutant: every request works in the same directory /tmp/video-gen.
BeginSharedDir(r) ==
  /\ h[r].pc = "start"
  /\ uuids' = uuids + 1
  /\ LET l == [h[r] EXCEPT !.tempDir = 0]
     IN  \/ /\ dirs' = dirs \cup {0}
            /\ h' = [h EXCEPT ![r] = [l EXCEPT !.pc = "body"]]
         \/ /\ dirs' = dirs
            /\ h' = [h EXCEPT ![r] = Catch(l, "mkdir failed")]
  /\ UNCHANGED <<files, videos, fontOk, client, tr, codec, raster>>

\* POST entered: tempDir is named and created.
Begin(r) ==
  /\ h[r].pc = "start"
  /\ uuids' = uuids + 1
  /\ LET l == [h[r] EXCEPT !.tempDir = uuids]
     IN  \/ /\ dirs' = dirs \cup {uuids}
            /\ h' = [h EXCEPT ![r] = [l EXCEPT !.pc = "body"]]
         \/ /\ dirs' = dirs
            /\ h' = [h EXCEPT ![r] = Catch(l, "mkdir failed")]
  /\ UNCHANGED <<files, videos, fontOk, client, tr, codec, raster>>

\* request.json(), the validation of the body, public/videos, the output
\* name and the caption filter.
ReadBody(r) ==
  /\ h[r].pc = "body"
  /\ LET l == h[r]
         body == l.body
         startTime == resolveStartTime(body.startTime)
         endTime == resolveEndTime(body.endTime, startTime)
     IN  \/ /\ h' = [h EXCEPT ![r] = Catch(l, "Unexpected end of JSON input")]
            /\ uuids' = uuids
         \/ /\ body.youtubeUrl = ""
            /\ h' = [h EXCEPT ![r] =
                       Return([l EXCEPT !.startTime = startTime, !.endTime = endTime],
                              [status |-> 400,
                               error |-> "Invalid YouTube URL provided"])]
            /\ uuids' = uuids
         \/ /\ body.youtubeUrl # ""
            /\ endTime - startTime < 1 * Sec
            /\ h' = [h EXCEPT ![r] =
                       Return([l EXCEPT !.startTime = startTime, !.endTime = endTime],
                              [status |-> 400,
                               error |-> "Clip duration must be at least 1 second"])]
            /\ uuids' = uuids
         \/ /\ body.youtubeUrl # ""
            /\ endTime - startTime >= 1 * Sec
            /\ uuids' = uuids + 1
            /\ h' = [h EXCEPT ![r] =
                       [l EXCEPT !.pc = "title",
                                 !.style = resolveStyle(body.overrides),
                                 !.startTime = startTime,
                                 !.endTime = endTime,
                                 !.finalVideoName = uuids,
                                 !.validatedCaptions =
                                    validateCaptions(body.captions, startTime, endTime)]]
  /\ UNCHANGED <<dirs, files, videos, fontOk, client, tr, codec, raster>>

\* The title image: blank and transparent for an empty title.
titleImage(title, style) ==
  IF title = <<>> \/ Trim(title) = <<>>
    THEN createTextImage(<<" ">>, style.titlePosition.width, style.titleFontSize,
                         "transparent", "Inter-Medium", fontOk)
    ELSE createTextImage(title, style.titlePosition.width, style.titleFontSize,
                         style.titleColor, "Inter-Medium", fontOk)

\* Mutant: no image is written for an empty title.
TitleImageSkipsBlank(r) ==
  /\ h[r].pc = "title"
  /\ LET l == h[r]
         blank == l.body.title = <<>> \/ Trim(l.body.title) = <<>>
     IN  \/ /\ files' = IF blank THEN files
                        ELSE WriteFile(files, Path(l.tempDir, "title.png", -1),
                                       titleImage(l.body.title, l.style))
            /\ h' = [h EXCEPT ![r] = [l EXCEPT !.pc = "credit"]]
         \/ /\ files' = files
            /\ h' = [h EXCEPT ![r] = Catch(l, "title image failed")]
  /\ UNCHANGED <<dirs, videos, uuids, fontOk, client, tr, codec, raster>>

TitleImage(r) ==
  /\ h[r].pc = "title"
  /\ LET l == h[r]
     IN  \/ /\ files' = WriteFile(files, Path(l.tempDir, "title.png", -1),
                                  titleImage(l.body.title, l.style))
            /\ h' = [h EXCEPT ![r] = [l EXCEPT !.pc = "credit"]]
         \/ /\ files' = files
            /\ h' = [h EXCEPT ![r] = Catch(l, "title image failed")]
  /\ UNCHANGED <<dirs, videos, uuids, fontOk, client, tr, codec, raster>>

CreditPrefix == <<"C", "r", "e", "d", "i", "t", ":", " ">>

\* The credit image: blank and transparent for an empty credit.
creditImage(credit, style) ==
  IF credit = <<>> \/ Trim(credit) = <<>>
    THEN createTextImage(<<" ">>, style.creditPosition.width, style.creditFontSize,
                         "transparent", "Inter-Medium", fontOk)
    ELSE createTextImage(
           IF StartsWith(credit, CreditPrefix) THEN credit
           ELSE CreditPrefix \o credit,
           style.creditPosition.width, style.creditFontSize, style.creditColor,
           "Inter-Medium", fontOk)

CreditImage(r) ==
  /\ h[r].pc = "credit"
  /\ LET l == h[r]
     IN  \/ /\ files' = WriteFile(files, Path(l.tempDir, "credit.png", -1),
                                  creditImage(l.body.credit, l.style))
            /\ h' = [h EXCEPT ![r] = [l EXCEPT !.pc = "captions"]]
         \/ /\ files' = files
            /\ h' = [h EXCEPT ![r] = Catch(l, "credit image failed")]
  /\ UNCHANGED <<dirs, videos, uuids, fontOk, client, tr, codec, raster>>

\* Mutant: the window keeps the caption's times on the source timeline.
captionImageEntryAbsolute(caption, i, tempDir, startTime) ==
  [path |-> Path(tempDir, "caption.png", i),
   startTime |-> MathMax(0, timeToSeconds(caption.start)),
   endTime |-> MathMax(0, timeToSeconds(caption.end)),
   text |-> caption.text]

\* The entry pushed to captionImages for validatedCaptions[i] (0-based i).
captionImageEntry(caption, i, tempDir, startTime) ==
  LET startSeconds == JsSub(timeToSeconds(caption.start), startTime)
      endSeconds == JsSub(timeToSeconds(caption.end), startTime)
  IN  [path |-> Path(tempDir, "caption.png", i),
       startTime |-> MathMax(0, startSeconds),
       endTime |-> MathMax(0, endSeconds),
       text |-> caption.text]

\* One iteration of the caption image loop.
CaptionImage(r) ==
  /\ h[r].pc = "captions"
  /\ Len(h[r].captionImages) < Len(h[r].validatedCaptions)
  /\ LET l == h[r]
         i == Len(l.captionImages)
         caption == l.validatedCaptions[i + 1]
         entry == captionImageEntry(caption, i, l.tempDir, l.startTime)
     IN  \/ /\ files' = WriteFile(files, entry.path,
                          createTextImage(caption.text,
                                          l.style.captionPosition.width,
                                          l.style.captionFontSize,
                                          l.style.captionColor,
                                          "Roboto-Medium", fontOk))
            /\ h' = [h EXCEPT ![r] =
                       [l EXCEPT !.captionImages = Append(l.captionImages, entry)]]
         \/ /\ files' = files
            /\ h' = [h EXCEPT ![r] = Catch(l, "caption image failed")]
  /\ UNCHANGED <<dirs, videos, uuids, fontOk, client, tr, codec, raster>>

\* Mutant: a failed download is not thrown; the handler goes on.
DownloadIgnoresFailure(r) ==
  /\ h[r].pc = "captions"
  /\ Len(h[r].captionImages) = Len(h[r].validatedCaptions)
  /\ LET l == h[r]
     IN  \/ /\ files' = WriteFile(files, Path(l.tempDir, "downloaded_video.mp4", -1),
                                  [kind |-> "video", url |-> l.body.youtubeUrl,
                                   startTime |-> l.startTime, endTime |-> l.endTime])
            /\ h' = [h EXCEPT ![r] = [l EXCEPT !.pc = "ffmpeg"]]
         \/ /\ files' = files
            /\ h' = [h EXCEPT ![r] = [l EXCEPT !.pc = "ffmpeg"]]
  /\ UNCHANGED <<dirs, videos, uuids, fontOk, client, tr, codec, raster>>

\* downloadVideoWithPytubefix, then the ffprobe check, which only logs.
Download(r) ==
  /\ h[r].pc = "captions"
  /\ Len(h[r].captionImages) = Len(h[r].validatedCaptions)
  /\ LET l == h[r]
     IN  \/ /\ files' = WriteFile(files, Path(l.tempDir, "downloaded_video.mp4", -1),
                                  [kind |-> "video", url |-> l.body.youtubeUrl,
                                   startTime |-> l.startTime, endTime |-> l.endTime])
            /\ h' = [h EXCEPT ![r] = [l EXCEPT !.pc = "ffmpeg"]]
         \/ /\ files' = files
            /\ h' = [h EXCEPT ![r] = Catch(l, "Video download failed")]
  /\ UNCHANGED <<dirs, videos, uuids, fontOk, client, tr, codec, raster>>

\* The executor of the engine promise: the filter graph, the inputs, save().
StartEngine(r) ==
  /\ h[r].pc = "ffmpeg"
  /\ LET l == h[r]
     IN  h' = [h EXCEPT ![r] =
                 [l EXCEPT !.pc = "engine",
                           !.filters = BuildFilters(l.captionImages,
                                         l.body.aspectRatio,
                                         l.endTime - l.startTime, l.style),
                           !.inputs = BuildInputs(l.tempDir, l.captionImages),
                           !.engineRuns = l.engineRuns + 1]]
  /\ UNCHANGED <<dirs, files, videos, uuids, fontOk, client, tr, codec, raster>>

\* The engine's 'end' event.
EngineEnd(r) ==
  /\ h[r].pc = "engine"
  /\ videos' = videos \cup {h[r].finalVideoName}
  /\ h' = [h EXCEPT ![r] = [h[r] EXCEPT !.pc = "cleanup"]]
  /\ UNCHANGED <<dirs, files, uuids, fontOk, client, tr, codec, raster>>

\* Mutant: after the engine's 'error' event the engine is started again,
\* once.
EngineErrorRetries(r) ==
  /\ h[r].pc = "engine"
  /\ h' = [h EXCEPT ![r] = IF h[r].engineRuns < 2
                             THEN [h[r] EXCEPT !.pc = "ffmpeg"]
                             ELSE Catch(h[r], "FFmpeg error")]
  /\ UNCHANGED <<dirs, files, videos, uuids, fontOk, client, tr, codec, raster>>

\* The engine's 'error' event.
EngineError(r) ==
  /\ h[r].pc = "engine"
  /\ h' = [h EXCEPT ![r] = Catch(h[r], "FFmpeg error")]
  /\ UNCHANGED <<dirs, files, videos, uuids, fontOk, client, tr, codec, raster>>

\* After a successful render: the scratch directory is removed (a failure
\* is logged) and the success response is returned.
Cleanup(r) ==
  /\ h[r].pc = "cleanup"
  /\ LET l == [h[r] EXCEPT !.cleanupDone = TRUE,
                           !.rmAttempts = h[r].rmAttempts + 1]
     IN  /\ h' = [h EXCEPT ![r] =
                    Return(l, [status |-> 200, success |-> TRUE,
                               videoUrl |-> l.finalVideoName])]
         /\ \/ /\ dirs' = dirs \ {l.tempDir}
               /\ files' = RemoveDir(files, l.tempDir)
            \/ /\ dirs' = dirs
               /\ files' = files
  /\ UNCHANGED <<videos, uuids, fontOk, client, tr, codec, raster>>

\* Mutant: a removal that throws in the finally block replaces the response.
FinallyMasksResult(r) ==
  /\ h[r].pc = "finally"
  /\ LET l == h[r]
     IN  IF ~l.cleanupDone
           THEN \/ /\ h' = [h EXCEPT ![r] = [l EXCEPT !.pc = "done",
                                                      !.rmAttempts = l.rmAttempts + 1]]
                   /\ dirs' = dirs \ {l.tempDir}
                   /\ files' = RemoveDir(files, l.tempDir)
                \/ /\ h' = [h EXCEPT ![r] =
                              [l EXCEPT !.pc = "done",
                                        !.rmAttempts = l.rmAttempts + 1,
                                        !.response = [status |-> 500,
                                                      error |-> "Failed to generate video",
                                                      details |-> "rm failed"]]]
                   /\ dirs' = dirs
                   /\ files' = files
           ELSE /\ h' = [h EXCEPT ![r] = [l EXCEPT !.pc = "done"]]
                /\ UNCHANGED <<dirs, files>>
  /\ UNCHANGED <<videos, uuids, fontOk, client, tr, codec, raster>>

\* Mutant: the finally block removes nothing.
FinallyWithoutRm(r) ==
  /\ h[r].pc = "finally"
  /\ h' = [h EXCEPT ![r] = [h[r] EXCEPT !.pc = "done"]]
  /\ UNCHANGED <<dirs, files, videos, uuids, fontOk, client, tr, codec, raster>>

\* The finally block.
Finally(r) ==
  /\ h[r].pc = "finally"
  /\ LET l == h[r]
     IN  IF ~l.cleanupDone
           THEN /\ h' = [h EXCEPT ![r] = [l EXCEPT !.pc = "done",
                                                  !.rmAttempts = l.rmAttempts + 1]]
                /\ \/ /\ dirs' = dirs \ {l.tempDir}
                      /\ files' = RemoveDir(files, l.tempDir)
                   \/ /\ dirs' = dirs
                      /\ files' = files
           ELSE /\ h' = [h EXCEPT ![r] = [l EXCEPT !.pc = "done"]]
                /\ UNCHANGED <<dirs, files>>
  /\ UNCHANGED <<videos, uuids, fontOk, client, tr, codec, raster>>

Post(r) ==
  \/ Begin(r)
  \/ ReadBody(r)
  \/ TitleImage(r)
  \/ CreditImage(r)
  \/ CaptionImage(r)
  \/ Download(r)
  \/ StartEngine(r)
  \/ EngineEnd(r)
  \/ EngineError(r)
  \/ Cleanup(r)
  \/ Finally(r)

\* No browser session: the request comes from elsewhere.
NoClient == [pc |-> "none"]
NoTranscribe ==
  [pc |-> "idle", startTime |-> 0, endTime |-> 0, ok |-> FALSE, captions |-> <<>>]

\* No timestamp is being converted.
NoCodec == [pc |-> "none"]

\* No text is being drawn on its own.
NoRaster == [pc |-> "none"]

\* One request, of any body, arrives at the server.
Init ==
  /\ \E body \in Bodies : h = [r \in Reqs |-> IF r = 1 THEN Incoming(body) ELSE Idle]
  /\ dirs = {}
  /\ files = {}
  /\ videos = {}
  /\ uuids = 0
  /\ fontOk \in BOOLEAN
  /\ client = NoClient
  /\ tr = NoTranscribe
  /\ codec = NoCodec
  /\ raster = NoRaster

Next == \E r \in Reqs : Post(r)

Spec == Init /\ [][Next]_vars

\* ------------------------------------- the browser and transcription
\* timeToSeconds and formatTimestamp of components/video/utils, after the
\* timestamp codec of the specification: parse reads "." and "," as the
\* fractional separator and yields 0 for what it cannot read; format
\* writes HH:MM:SS.mmm with the milliseconds rounded.
RECURSIVE CommaToDot(_)
CommaToDot(s) ==
  IF s = <<>> THEN <<>>
  ELSE <<IF Head(s) = "," THEN "." ELSE Head(s)>> \o CommaToDot(Tail(s))

utilsTimeToSeconds(timeStr) ==
  LET seconds == timeToSeconds(CommaToDot(timeStr))
  IN  IF IsNum(seconds) THEN seconds ELSE 0

utilsFormatTimestamp(seconds) == formatTimestamp(RoundToMs(seconds) * TicksPerMs)

\* getDefaultSettings of SavedClips: the text, the sizes, the colours and
\* the rects, which follow the canvas of the aspect ratio.
TopTextDefault ==
  <<"E", "n", "t", "e", "r", " ", "V", "i", "d", "e", "o", " ",
    "T", "i", "t", "l", "e">>
BottomTextDefault ==
  <<"E", "n", "t", "e", "r", " ", "C", "r", "e", "d", "i", "t", "s">>

Max(a, b) == IF a >= b THEN a ELSE b
Min(a, b) == IF a <= b THEN a ELSE b

getDefaultSettings(aspectRatio) ==
  LET canvasDimensions == getCanvasDimensions(aspectRatio)
      padding == 180
      elementWidth == canvasDimensions.width - (padding * 2)
  IN  [aspectRatio |-> aspectRatio,
       topText |-> TopTextDefault,
       bottomText |-> BottomTextDefault,
       style |->
         [titlePosition |->
            \* y: Math.max(60, height * 0.05)
            Rect(padding, Max(2 * 60, canvasDimensions.height \div 10),
                 elementWidth, 200),
          captionPosition |->
            \* y: height / 2 - 100
            Rect(padding, canvasDimensions.height - 2 * 100, elementWidth, 200),
          creditPosition |->
            \* y: Math.min(height - 260, height * 0.85)
            Rect(padding,
                 Min(2 * (canvasDimensions.height - 260),
                     (canvasDimensions.height * 17) \div 10),
                 elementWidth, 200),
          titleFontSize |-> 60, captionFontSize |-> 40, creditFontSize |-> 50,
          titleColor |-> "#FFFFFF", captionColor |-> "#FFFFFF",
          creditColor |-> "#FFFFFF", canvasBackgroundColor |-> "#000000"]]

\* The selections of the clipper: start and end in the source video.
ClipRanges == { <<0, 3 * Sec>>, <<Sec, 4 * Sec>>, <<2 * Sec, 4 * Sec>> }

\* What the model may answer: captions timed from the start of the clip.
ModelCaptions ==
  { Caption(Ts(500), Ts(1500), <<"a">>),
    Caption(Ts(1000), Ts(2000), <<"b">>),
    Caption(Ts(0), Ts(3000), <<"c">>) }

ModelOutputs == SeqsUpTo(ModelCaptions, MaxCaptions)

\* adjustedCaptions of the transcribe route.
adjustCaption(caption, startTime) ==
  [caption EXCEPT
     !.start = formatTimestamp(JsAdd(timeToSeconds(caption.start), startTime)),
     !.end = formatTimestamp(JsAdd(timeToSeconds(caption.end), startTime))]

adjustCaptions(captions, startTime) ==
  [n \in 1..Len(captions) |-> adjustCaption(captions[n], startTime)]

\* standardizeCaptions of handleGenerateVideo: map, then filter.
standardizeCaption(caption, clipStart) ==
  LET startSeconds == JsSub(utilsTimeToSeconds(caption.start), clipStart)
      endSeconds == JsSub(utilsTimeToSeconds(caption.end), clipStart)
  IN  [start |-> utilsFormatTimestamp(MathMax(0, startSeconds)),
       end |-> utilsFormatTimestamp(MathMax(0, endSeconds)),
       text |-> caption.text]

RECURSIVE standardizeCaptions(_, _)
standardizeCaptions(captions, clipStart) ==
  IF captions = <<>> THEN <<>>
  ELSE LET c == standardizeCaption(Head(captions), clipStart)
           rest == standardizeCaptions(Tail(captions), clipStart)
       IN  IF c.start # c.end THEN <<c>> \o rest ELSE rest

\* saveCurrentClip of the clipper: the transcription is requested.
SaveCurrentClip ==
  /\ client.pc = "clipper"
  /\ tr.pc = "idle"
  /\ tr' = [NoTranscribe EXCEPT !.pc = "called",
                                !.startTime = client.startTime,
                                !.endTime = client.endTime]
  /\ client' = [client EXCEPT !.pc = "transcribing"]
  /\ UNCHANGED <<h, dirs, files, videos, uuids, fontOk, codec, raster>>

\* POST of the transcribe route: the model's captions moved by startTime,
\* or a failure (no API key, the model call throws, its answer is not JSON).
TranscribePost ==
  /\ tr.pc = "called"
  /\ \/ \E captions \in ModelOutputs :
          tr' = [tr EXCEPT !.pc = "responded", !.ok = TRUE,
                           !.captions = adjustCaptions(captions, tr.startTime)]
     \/ tr' = [tr EXCEPT !.pc = "responded", !.ok = FALSE, !.captions = <<>>]
  /\ UNCHANGED <<h, dirs, files, videos, uuids, fontOk, client, codec, raster>>

\* The clipper receives the answer: the clip is saved with the captions.
ClipSaved ==
  /\ client.pc = "transcribing"
  /\ tr.pc = "responded"
  /\ tr' = NoTranscribe
  /\ IF tr.ok
       THEN client' = [client EXCEPT
                         !.pc = "saved",
                         !.clip = [start |-> client.startTime,
                                   end |-> client.endTime,
                                   captions |-> tr.captions]]
       ELSE client' = [client EXCEPT !.pc = "failed"]
  /\ UNCHANGED <<h, dirs, files, videos, uuids, fontOk, codec, raster>>

\* handleGenerateVideo up to its fetch: the request is sent.
HandleGenerateVideo(r) ==
  /\ client.pc = "saved"
  /\ h[r].pc = "idle"
  /\ \A q \in Reqs : q < r => h[q].pc # "idle"
  /\ LET clip == client.clip
         settings == getDefaultSettings(client.aspectRatio)
         body == [youtubeUrl |-> "https://youtu.be/v",
                  startTime |-> clip.start,
                  endTime |-> clip.end,
                  captions |-> standardizeCaptions(clip.captions, clip.start),
                  aspectRatio |-> settings.aspectRatio,
                  title |-> settings.topText,
                  credit |-> settings.bottomText,
                  overrides |-> <<settings.style>>]
     IN  h' = [h EXCEPT ![r] = Incoming(body)]
  /\ client' = [client EXCEPT !.pc = "generating", !.generatingClipId = 1,
                              !.request = r]
  /\ UNCHANGED <<dirs, files, videos, uuids, fontOk, tr, codec, raster>>

\* handleGenerateVideo after its fetch: the response, then the finally block.
GenerateDone ==
  /\ client.pc = "generating"
  /\ h[client.request].pc = "done"
  /\ client' = [client EXCEPT
                  !.pc = "saved",
                  !.generatingClipId = 0,
                  !.generatedVideoUrl =
                     IF h[client.request].response.status = 200
                       THEN h[client.request].response.videoUrl
                       ELSE client.generatedVideoUrl]
  /\ UNCHANGED <<h, dirs, files, videos, uuids, fontOk, tr, codec, raster>>

\* The clipper with a selection; nothing saved, no request sent.
InitE2E ==
  /\ h = [r \in Reqs |-> Idle]
  /\ dirs = {}
  /\ files = {}
  /\ videos = {}
  /\ uuids = 0
  /\ fontOk \in BOOLEAN
  /\ \E range \in ClipRanges, aspectRatio \in {"9:16", "4:5"} :
       client = [pc |-> "clipper", startTime |-> range[1], endTime |-> range[2],
                 aspectRatio |-> aspectRatio, clip |-> <<>>,
                 generatingClipId |-> 0, generatedVideoUrl |-> -1, request |-> 0]
  /\ tr = NoTranscribe
  /\ codec = NoCodec
  /\ raster = NoRaster

NextE2E ==
  \/ SaveCurrentClip
  \/ TranscribePost
  \/ ClipSaved
  \/ \E r \in Reqs : HandleGenerateVideo(r)
  \/ GenerateDone
  \/ \E r \in Reqs : Post(r)

SpecE2E == InitE2E /\ [][NextE2E]_vars

\* ------------------------------------------------ reading the graph
\* The request's graph has been built and handed to the engine.
Built(r) == h[r].engineRuns > 0

\* The engine is running: the scratch files are what it reads.
Invoked(r) == h[r].pc = "engine"

IsCaptionOverlay(node) == node.op = "overlay" /\ "enable" \in DOMAIN node.args

\* The caption overlay nodes of a graph, in graph order.
CaptionNodes(filters) == SelectSeq(filters, IsCaptionOverlay)

\* The engine input indices a node reads.
InputRefs(node) == {node.ins[m].input : m \in {m \in 1..Len(node.ins) : IsInput(node.ins[m])}}

\* The pads a node reads.
PadRefs(node) == {node.ins[m] : m \in {m \in 1..Len(node.ins) : IsPad(node.ins[m])}}

\* The places (node, position) where a pad is read.
Consumers(filters, pad) ==
  {<<j, m>> \in (1..Len(filters)) \X (1..2) :
     m <= Len(filters[j].ins) /\ filters[j].ins[m] = pad}

Producers(filters, pad) == {j \in 1..Len(filters) : filters[j].out = pad}

HasFile(path) == \E f \in files : f.path = path
FileAt(path) == (CHOOSE f \in files : f.path = path).content

ClipDuration(r) == h[r].endTime - h[r].startTime

\* ----------------------------------------------------------- claims
\* C1: when k captions pass validation, the graph holds exactly k caption
\* overlay nodes and the i-th of them (0-based, in graph order) reads
\* engine input 3 + i.
C1_CaptionNodesReadInputs3Plus ==
  \A r \in Reqs :
    Built(r) =>
      LET k == Len(h[r].validatedCaptions)
          nodes == CaptionNodes(h[r].filters)
      IN  /\ Len(nodes) = k
          /\ \A i \in 0..(k - 1) : InputRefs(nodes[i + 1]) = {3 + i}

C1_Witness ==
  \E r \in Reqs :
    /\ Built(r)
    /\ Len(h[r].validatedCaptions) = 2
    /\ Len(CaptionNodes(h[r].filters)) = 2

\* C2: at engine invocation the input list is [source video, title image,
\* credit image, caption_0 .. caption_{k-1}], caption_i being the image drawn
\* from the i-th validated caption, and every input index a node reads is
\* below the length of the list.
C2_InputManifest ==
  \A r \in Reqs :
    Invoked(r) =>
      LET l == h[r]
          k == Len(l.validatedCaptions)
      IN  /\ Len(l.inputs) = 3 + k
          /\ \A n \in 1..Len(l.inputs) : HasFile(l.inputs[n])
          /\ l.inputs[1] = Path(l.tempDir, "downloaded_video.mp4", -1)
          /\ FileAt(l.inputs[1]).kind = "video"
          /\ l.inputs[2] = Path(l.tempDir, "title.png", -1)
          /\ FileAt(l.inputs[2]) = titleImage(l.body.title, l.style)
          /\ l.inputs[3] = Path(l.tempDir, "credit.png", -1)
          /\ FileAt(l.inputs[3]) = creditImage(l.body.credit, l.style)
          /\ \A i \in 0..(k - 1) :
               /\ FileAt(l.inputs[3 + i + 1]).kind = "image"
               /\ FileAt(l.inputs[3 + i + 1]).text = l.validatedCaptions[i + 1].text
          /\ \A j \in 1..Len(l.filters) :
               \A n \in InputRefs(l.filters[j]) : n < Len(l.inputs)

C2_Witness ==
  \E r \in Reqs :
    /\ Invoked(r)
    /\ Len(h[r].validatedCaptions) = 2
    /\ h[r].validatedCaptions[1].text # h[r].validatedCaptions[2].text
    /\ Len(h[r].inputs) = 5

\* C3: with no validated caption the graph holds one no-op node that reads
\* the credit composite's output pad and produces final_video; for every k,
\* final_video is produced by exactly one node, and that node reads no pad
\* that no node produces.
C3_FinalVideoProduced ==
  \A r \in Reqs :
    Built(r) =>
      LET f == h[r].filters
          final == Producers(f, Pad("final_video"))
          nulls == {j \in 1..Len(f) : f[j].op = "null"}
      IN  /\ Cardinality(final) = 1
          /\ \A j \in final : \A p \in PadRefs(f[j]) : Producers(f, p) # {}
          /\ Len(h[r].validatedCaptions) = 0 =>
               /\ Cardinality(nulls) = 1
               /\ nulls = final
               /\ \A j \in nulls :
                    /\ Len(f[j].ins) = 1
                    /\ \E c \in Producers(f, f[j].ins[1]) :
                         f[c].op = "overlay" /\ InputRefs(f[c]) = {2}

C3_Witness ==
  \E r \in Reqs :
    /\ Built(r)
    /\ Len(h[r].validatedCaptions) = 0
    /\ Len(h[r].body.captions) > 0
    /\ \E j \in 1..Len(h[r].filters) : h[r].filters[j].op = "null"

\* C5: every caption that receives an overlay node has a clip-relative
\* window with 0 <= start < end <= clipDuration, clipDuration being
\* endTime - startTime as the handler resolved them.
C5_WindowsInsideClip ==
  \A r \in Reqs :
    Built(r) =>
      LET nodes == CaptionNodes(h[r].filters)
      IN  \A j \in 1..Len(nodes) :
            LET start == nodes[j].args.enable[1]
                end == nodes[j].args.enable[2]
            IN  /\ IsNum(start) /\ IsNum(end)
                /\ 0 <= start /\ start < end /\ end <= ClipDuration(r)

C5_Witness ==
  \E r \in Reqs :
    /\ Built(r)
    /\ Len(h[r].validatedCaptions) < Len(h[r].body.captions)
    /\ h[r].startTime > 0
    /\ \E j \in 1..Len(h[r].filters) :
         /\ IsCaptionOverlay(h[r].filters[j])
         /\ h[r].filters[j].args.enable[2] = ClipDuration(r) - Sec

\* C6: in every graph built, the pad names are pairwise distinct, every pad
\* but final_video and final_audio is read exactly once, those two are read
\* by no node, and every pad a node reads is produced by an earlier node.
Terminals == {Pad("final_video"), Pad("final_audio")}

C6_GraphWellFormed ==
  \A r \in Reqs :
    Built(r) =>
      LET f == h[r].filters
      IN  /\ \A i, j \in 1..Len(f) : i # j => f[i].out # f[j].out
          /\ \A j \in 1..Len(f) :
               IF f[j].out \in Terminals
                 THEN Consumers(f, f[j].out) = {}
                 ELSE Cardinality(Consumers(f, f[j].out)) = 1
          /\ \A t \in Terminals : Producers(f, t) # {}
          /\ \A j \in 1..Len(f) :
               \A p \in PadRefs(f[j]) : \E i \in 1..(j - 1) : f[i].out = p

C6_Witness ==
  \E r \in Reqs :
    /\ Built(r)
    /\ h[r].body.aspectRatio = "16:9"
    /\ Len(CaptionNodes(h[r].filters)) = 2
    /\ Cardinality(Consumers(h[r].filters, PadN("with_caption", 0))) = 1

\* C7: the number of graph nodes depends on the number k of validated
\* captions only; the title overlay (input 1) and the credit overlay
\* (input 2) are in the graph and title.png and credit.png are in the
\* scratch directory, whether title and credit are empty, blank or not.
C7_TitleAndCreditAlwaysComposited ==
  \A r \in Reqs :
    Invoked(r) =>
      LET l == h[r]
          f == l.filters
          k == Len(l.validatedCaptions)
      IN  /\ Len(f) = 6 + (IF k = 0 THEN 1 ELSE k)
          /\ \E j \in 1..Len(f) : f[j].op = "overlay" /\ InputRefs(f[j]) = {1}
          /\ \E j \in 1..Len(f) : f[j].op = "overlay" /\ InputRefs(f[j]) = {2}
          /\ HasFile(Path(l.tempDir, "title.png", -1))
          /\ HasFile(Path(l.tempDir, "credit.png", -1))

C7_Witness ==
  \E r \in Reqs :
    /\ Invoked(r)
    /\ h[r].body.title = <<>>
    /\ h[r].body.credit = <<>>
    /\ FileAt(Path(h[r].tempDir, "title.png", -1)).fontColor = "transparent"

\* C7, the blank case: a title of spaces only reaches the engine too.
C7_WitnessBlank ==
  \E r \in Reqs :
    /\ Invoked(r)
    /\ h[r].body.title = <<" ">>
    /\ h[r].body.credit # <<>>

\* The clip-relative window of a raw caption of request r.
RelStart(r, caption) == JsSub(timeToSeconds(caption.start), h[r].startTime)
RelEnd(r, caption) == JsSub(timeToSeconds(caption.end), h[r].startTime)

\* The graph of request r holds a caption overlay with this window.
HasOverlay(r, start, end) ==
  \E j \in 1..Len(h[r].filters) :
    /\ IsCaptionOverlay(h[r].filters[j])
    /\ h[r].filters[j].args.enable = <<start, end>>

\* C8: a caption that begins before the clip start and ends inside the clip
\* is kept with its start clamped to 0 and its end unchanged, and receives
\* an overlay node.
C8_StartClampedToZero ==
  \A r \in Reqs :
    Built(r) =>
      \A n \in 1..Len(h[r].body.captions) :
        LET caption == h[r].body.captions[n]
        IN  (/\ JsLt(RelStart(r, caption), 0)
             /\ JsGt(RelEnd(r, caption), 0)
             /\ JsLe(RelEnd(r, caption), ClipDuration(r)))
              => HasOverlay(r, 0, RelEnd(r, caption))

\* C9: a caption that begins inside the clip and ends after the clip end is
\* kept with its end clamped to clipDuration, and receives an overlay node.
C9_EndClampedToDuration ==
  \A r \in Reqs :
    Built(r) =>
      \A n \in 1..Len(h[r].body.captions) :
        LET caption == h[r].body.captions[n]
        IN  (/\ JsGe(RelStart(r, caption), 0)
             /\ JsLt(RelStart(r, caption), ClipDuration(r))
             /\ JsGt(RelEnd(r, caption), ClipDuration(r)))
              => HasOverlay(r, RelStart(r, caption), ClipDuration(r))

\* The entries of a caption list whose clip-relative start is start.
RECURSIVE StartingAt(_, _, _)
StartingAt(r, captions, start) ==
  IF captions = <<>> THEN <<>>
  ELSE IF RelStart(r, Head(captions)) = start
    THEN <<Head(captions)>> \o StartingAt(r, Tail(captions), start)
    ELSE StartingAt(r, Tail(captions), start)

\* C10: whatever the order of the captions in the request, the caption
\* images at inputs 3..3+k-1 are in ascending clip-relative start time,
\* and captions of equal start keep the order they had in the request.
C10_InputsInStartOrder ==
  \A r \in Reqs :
    Invoked(r) =>
      LET l == h[r]
          k == Len(l.captionImages)
      IN  /\ \A i \in 1..k : l.inputs[3 + i] = l.captionImages[i].path
          /\ \A i, j \in 1..k :
               i < j => l.captionImages[i].startTime <= l.captionImages[j].startTime
          /\ \A i \in 1..k :
               LET start == l.captionImages[i].startTime
               IN  StartingAt(r, l.validatedCaptions, start)
                     = StartingAt(r, validateCaptions(l.body.captions,
                                                      l.startTime, l.endTime), start)

\* C4: end to end the clip start is subtracted from a caption's timestamps
\* exactly once: a caption the transcribe route returned with the absolute
\* window [a, b], s <= a < b <= s + d for the clip's start s and duration d,
\* and that handleGenerateVideo sent, has an overlay with the enable window
\* [a - s, b - s].
C4_OffsetSubtractedOnce ==
  \A r \in Reqs :
    (Built(r) /\ client.pc = "generating" /\ client.request = r) =>
      LET clip == client.clip
          s == clip.start
          d == clip.end - clip.start
      IN  \A n \in 1..Len(clip.captions) :
            LET a == timeToSeconds(clip.captions[n].start)
                b == timeToSeconds(clip.captions[n].end)
            IN  (s <= a /\ a < b /\ b <= s + d) => HasOverlay(r, a - s, b - s)

\* ------------------------------------------------------- blank text
\* The text of a caption is empty after trimming.
IsBlank(text) == Trim(text) = <<>>

\* C11: a caption whose text is empty or whitespace-only is dropped by
\* validation: once the graph is built, no caption image, no engine input
\* and no overlay node belongs to a caption with blank text.
C11_BlankCaptionsDropped ==
  \A r \in Reqs :
    Built(r) =>
      /\ \A n \in 1..Len(h[r].validatedCaptions) :
           ~IsBlank(h[r].validatedCaptions[n].text)
      /\ \A n \in 1..Len(h[r].captionImages) :
           ~IsBlank(h[r].captionImages[n].text)
      /\ \A f \in files :
           (f.path.dir = h[r].tempDir /\ f.path.base = "caption.png") =>
             ~IsBlank(f.content.text)
      /\ \A n \in 1..Len(h[r].body.captions) :
           IsBlank(h[r].body.captions[n].text) =>
             Len(CaptionNodes(h[r].filters)) < Len(h[r].body.captions)

\* ------------------------------------------------- enable predicate
\* between(t, min, max) of the engine's expression language, which the
\* handler writes into enableCondition: 1 when min <= t <= max.
between(t, min, max) == min <= t /\ t <= max

\* The overlay node composites its image on the output frame at time t.
Enabled(node, t) == between(t, node.args.enable[1], node.args.enable[2])

\* The times of the output timeline that are looked at: every half second
\* of the clip.
FrameTimes(r) == {k * (Sec \div 2) : k \in 0..(2 * (ClipDuration(r) \div Sec))}

\* C12: the enable predicate of caption overlay i is true at output time t
\* if and only if start_i <= t < end_i; at t = end_i it is false.
C12_EnableWindowHalfOpen ==
  \A r \in Reqs :
    Built(r) =>
      LET nodes == CaptionNodes(h[r].filters)
      IN  \A i \in 1..Len(nodes), t \in FrameTimes(r) :
            Enabled(nodes[i], t) <=>
              (h[r].captionImages[i].startTime <= t
                 /\ t < h[r].captionImages[i].endTime)

\* ----------------------------------------------------------- cleanup
\* The handler of request r has finished: its response is out and its
\* finally block has run.
Finished(r) == h[r].pc = "done"

\* C13: on every exit path of the handler (success, 400 rejection, a
\* failed download, a failed image, a failed engine run) the removal of
\* the request's scratch directory has been attempted, once, by the time
\* the handler finishes.
C13_CleanupAttemptedOnEveryExit ==
  \A r \in Reqs :
    Finished(r) =>
      /\ h[r].response.status \in {200, 400, 500}
      /\ h[r].rmAttempts = 1

\* A request rejected with 400 after its scratch directory was created has
\* finished with one removal attempted.
C13_Witness ==
  \E r \in Reqs :
    /\ Finished(r)
    /\ h[r].response.status = 400
    /\ h[r].tempDir >= 0
    /\ h[r].rmAttempts = 1

\* ------------------------------------------------------- concurrency
\* A body that is rendered, with one caption.
RenderedBody ==
  Body(<<Caption(Ts(1500), Ts(2500), <<"a">>)>>, <<0, 3 * Sec>>,
       Decor(<<"T">>, <<"@", "x">>, "9:16", "https://youtu.be/v"), <<>>)

\* A body that is rejected for its URL.
RejectedBody == Body(<<>>, <<0, 3 * Sec>>, Decor(<<"T">>, <<" ">>, "1:1", ""), <<>>)

\* The bodies of the first request: one that is rendered, one that is
\* rejected for its duration, one that is rejected for its URL.
ConcurrentBodies ==
  { RenderedBody,
    Body(<<>>, <<0, Sec \div 2>>,
         Decor(<<"T">>, <<"@", "x">>, "9:16", "https://youtu.be/v"), <<>>),
    RejectedBody }

\* Every request has arrived: the second is rendered, the ones after it
\* are rejected; the event loop interleaves their handlers at the awaits.
InitConcurrent ==
  /\ \E first \in ConcurrentBodies :
       h = [r \in Reqs |-> Incoming(IF r = 1 THEN first
                                    ELSE IF r = 2 THEN RenderedBody
                                    ELSE RejectedBody)]
  /\ dirs = {}
  /\ files = {}
  /\ videos = {}
  /\ uuids = 0
  /\ fontOk \in BOOLEAN
  /\ client = NoClient
  /\ tr = NoTranscribe
  /\ codec = NoCodec
  /\ raster = NoRaster

SpecConcurrent == InitConcurrent /\ [][Next]_vars

\* The handler of r is between the creation of its scratch directory and
\* its own removal of it.
InFlight(r) ==
  h[r].pc \in {"body", "title", "credit", "captions", "ffmpeg", "engine", "cleanup"}

\* The files r has written so far and still reads.
Assets(r) ==
  LET l == h[r]
  IN  (IF l.pc \in {"credit", "captions", "ffmpeg", "engine", "cleanup"}
         THEN {Path(l.tempDir, "title.png", -1)} ELSE {})
      \cup (IF l.pc \in {"captions", "ffmpeg", "engine", "cleanup"}
              THEN {Path(l.tempDir, "credit.png", -1)} ELSE {})
      \cup {l.captionImages[n].path : n \in 1..Len(l.captionImages)}
      \cup (IF l.pc \in {"ffmpeg", "engine", "cleanup"}
              THEN {Path(l.tempDir, "downloaded_video.mp4", -1)} ELSE {})

\* C14: for any interleaving of concurrent requests, each request has its
\* own scratch directory and its own output file name, and while a request
\* is in flight its scratch directory and the assets it wrote are there,
\* whatever the other requests clean up.
C14_RequestsIsolated ==
  /\ \A r1, r2 \in Reqs :
       r1 # r2 =>
         /\ (h[r1].tempDir >= 0 /\ h[r2].tempDir >= 0)
              => h[r1].tempDir # h[r2].tempDir
         /\ (h[r1].finalVideoName >= 0 /\ h[r2].finalVideoName >= 0)
              => h[r1].finalVideoName # h[r2].finalVideoName
  /\ \A r \in Reqs :
       InFlight(r) =>
         /\ h[r].tempDir \in dirs
         /\ \A path \in Assets(r) : HasFile(path)

\* One request has finished and removed its scratch directory while
\* another one, with all its assets written, is waiting for the engine.
C14_Witness ==
  \E r1, r2 \in Reqs :
    /\ r1 # r2
    /\ h[r1].pc = "done"
    /\ h[r1].response.status = 200
    /\ h[r1].tempDir \notin dirs
    /\ h[r2].pc = "engine"
    /\ Len(h[r2].captionImages) > 0

\* ------------------------------------------------------- time range
\* The time range of the body is non-positive or inverted: startTime is
\* negative or NaN, or endTime is NaN or not after startTime.
BadRange(body) ==
  \/ body.startTime = NaN
  \/ body.endTime = NaN
  \/ IsNum(body.startTime) /\ body.startTime < 0
  \/ IsNum(body.startTime) /\ IsNum(body.endTime) /\ body.endTime <= body.startTime

\* The body of r has been read and validated.
BodyRead(r) == h[r].pc \notin {"idle", "start", "body"}

\* C15: a request whose time range is non-positive or inverted is
\* rejected with an error response; no image is written, no download is
\* started and the engine is not invoked for it.
C15_BadRangeRejected ==
  \A r \in Reqs :
    (BodyRead(r) /\ BadRange(h[r].body)) =>
      /\ h[r].response.status >= 400
      /\ h[r].engineRuns = 0
      /\ \A f \in files : f.path.dir # h[r].tempDir

\* ------------------------------------------------------- the engine
\* The engine has run for r and the handler has moved on.
EngineOver(r) == h[r].engineRuns > 0 /\ h[r].pc \in {"cleanup", "finally", "done"}

\* The engine run of r ended with its 'end' event: the output file is
\* written.
EngineSucceeded(r) == EngineOver(r) /\ h[r].finalVideoName \in videos

\* C16: the engine is invoked at most once per request; when that run ends
\* in error the response is the failure carrying the engine's error and the
\* engine is not run again; a success response is returned only after the
\* engine ended successfully.
C16_EngineOnceNoRetry ==
  \A r \in Reqs :
    /\ h[r].engineRuns <= 1
    /\ (EngineOver(r) /\ ~EngineSucceeded(r)) =>
         /\ h[r].response.status = 500
         /\ h[r].response.error = "Failed to generate video"
         /\ h[r].response.details = "FFmpeg error"
    /\ h[r].response.status = 200 => EngineSucceeded(r)

\* The engine failed for a request and its handler has finished with the
\* failure response.
C16_Witness ==
  \E r \in Reqs :
    /\ Finished(r)
    /\ h[r].engineRuns = 1
    /\ h[r].finalVideoName \notin videos
    /\ h[r].response.status = 500
    /\ h[r].response.details = "FFmpeg error"

\* ------------------------------------------- the codec on its own
\* The numbers given to formatTimestamp: around the carries of the
\* seconds, minutes and hours fields, at the ends of the millisecond
\* field, on a millisecond and a tick above and a tick below one.
CodecSeconds ==
  { base * Sec + ms * TicksPerMs + sub :
      base \in {0, 59, 60, 3599, 3600, 86399},
      ms \in {0, 1, 9, 10, 99, 100, 500, 999},
      sub \in {0, 1, TicksPerMs - 1} }

\* The fields of a well-formed timestamp and its fractional separator.
StampFields ==
  [h : {0, 1, 12}, m : {0, 59}, s : {0, 59}, ms : {0, 5, 500, 999},
   sep : {".", ","}]

\* "H:MM:SS.mmm" or "H:MM:SS,mmm".
WriteStamp(f) ==
  NatToString(f.h) \o <<":">>
    \o PadStart(NatToString(f.m), 2, "0") \o <<":">>
    \o PadStart(NatToString(f.s), 2, "0") \o <<f.sep>>
    \o PadStart(NatToString(f.ms), 3, "0")

\* 3600h + 60m + s + ms/1000, in ticks.
StampValue(f) == (3600 * f.h + 60 * f.m + f.s) * Sec + f.ms * TicksPerMs

\* Strings that are not timestamps.
Malformed ==
  { <<>>, <<"a", "b", "c">>, <<"a", "a", ":", "b", "b">>, <<":">>,
    <<"1", ":", "x", "x">>, <<"-">> }

\* A conversion before its first step: of a number, or of a string.
CodecOf(pc, seconds, text, wellFormed, sep, expected) ==
  [pc |-> pc, seconds |-> seconds, text |-> text, wellFormed |-> wellFormed,
   sep |-> sep, expected |-> expected,
   formatted |-> <<>>, parsed |-> 0, reformatted |-> <<>>]

CodecInputs ==
  {CodecOf("number", s, <<>>, FALSE, "", 0) : s \in CodecSeconds}
    \cup {CodecOf("string", 0, WriteStamp(f), TRUE, f.sep, StampValue(f)) :
            f \in StampFields}
    \cup {CodecOf("string", 0, t, FALSE, "", 0) : t \in Malformed}

\* formatTimestamp(seconds)
Format ==
  /\ codec.pc = "number"
  /\ codec' = [codec EXCEPT !.pc = "formatted",
                            !.formatted = formatTimestamp(codec.seconds)]
  /\ UNCHANGED <<h, dirs, files, videos, uuids, fontOk, client, tr, raster>>

\* timeToSeconds of the formatted number
Parse ==
  /\ codec.pc = "formatted"
  /\ codec' = [codec EXCEPT !.pc = "parsed",
                            !.parsed = timeToSeconds(codec.formatted)]
  /\ UNCHANGED <<h, dirs, files, videos, uuids, fontOk, client, tr, raster>>

\* formatTimestamp of the parsed number
Reformat ==
  /\ codec.pc = "parsed"
  /\ codec' = [codec EXCEPT !.pc = "reformatted",
                            !.reformatted = formatTimestamp(codec.parsed)]
  /\ UNCHANGED <<h, dirs, files, videos, uuids, fontOk, client, tr, raster>>

\* timeToSeconds(timeStr) of a string from outside
ParseText ==
  /\ codec.pc = "string"
  /\ codec' = [codec EXCEPT !.pc = "read",
                            !.parsed = timeToSeconds(codec.text)]
  /\ UNCHANGED <<h, dirs, files, videos, uuids, fontOk, client, tr, raster>>

InitCodec ==
  /\ h = [r \in Reqs |-> Idle]
  /\ dirs = {}
  /\ files = {}
  /\ videos = {}
  /\ uuids = 0
  /\ fontOk = TRUE
  /\ client = NoClient
  /\ tr = NoTranscribe
  /\ codec \in CodecInputs
  /\ raster = NoRaster

NextCodec == Format \/ Parse \/ Reformat \/ ParseText

SpecCodec == InitCodec /\ [][NextCodec]_vars

\* ------------------------------------------------- codec properties
\* The number is a whole number of milliseconds in [0, 86400) seconds.
OnMillisecond(seconds) ==
  seconds >= 0 /\ seconds < 86400 * Sec /\ seconds % TicksPerMs = 0

\* C17: for every s in [0, 86400) seconds at millisecond granularity,
\* formatTimestamp(timeToSeconds(formatTimestamp(s))) = formatTimestamp(s).
C17_FormatParseFormat ==
  (codec.pc = "reformatted" /\ OnMillisecond(codec.seconds)) =>
    codec.reformatted = codec.formatted

\* 23:59:59.999 has gone through format, parse and format.
C17_Witness ==
  /\ codec.pc = "reformatted"
  /\ codec.seconds = 86399 * Sec + 999 * TicksPerMs
  /\ codec.formatted = <<"2", "3", ":", "5", "9", ":", "5", "9", ".", "9", "9", "9">>
  /\ codec.parsed = codec.seconds

AllDigits(s) == \A i \in 1..Len(s) : IsDigit(s[i])

\* C18: for every non-negative input, also one finer than a millisecond,
\* formatTimestamp writes HH:MM:SS.mmm with mmm of exactly 3 digits, SS and
\* MM in 00..59, and the fields together are the input rounded to the
\* nearest millisecond (a fraction that rounds up to a full second is
\* carried into the seconds, minutes and hours).
C18_FieldsRoundedWithCarry ==
  (codec.pc \in {"formatted", "parsed", "reformatted"} /\ codec.seconds >= 0) =>
    LET parts == Split(codec.formatted, ":")
        secondsParts == Split(parts[Len(parts)], ".")
    IN  /\ Len(parts) = 3
        /\ Len(secondsParts) = 2
        /\ Len(parts[1]) >= 2 /\ AllDigits(parts[1])
        /\ Len(parts[2]) = 2 /\ AllDigits(parts[2])
        /\ Len(secondsParts[1]) = 2 /\ AllDigits(secondsParts[1])
        /\ Len(secondsParts[2]) = 3 /\ AllDigits(secondsParts[2])
        /\ DigitsValue(parts[2], 0) <= 59
        /\ DigitsValue(secondsParts[1], 0) <= 59
        /\ (3600 * DigitsValue(parts[1], 0) + 60 * DigitsValue(parts[2], 0)
              + DigitsValue(secondsParts[1], 0)) * MsPerSec
             + DigitsValue(secondsParts[2], 0)
           = RoundToMs(codec.seconds)

\* C19: timeToSeconds reads a well-formed timestamp written with ',' as it
\* reads the one written with '.': H:MM:SS,mmm and H:MM:SS.mmm both give
\* 3600h + 60m + s + ms/1000.
C19_CommaAsSeparator ==
  (codec.pc = "read" /\ codec.wellFormed) => codec.parsed = codec.expected

\* C20: timeToSeconds returns the number 0 for every input that is not a
\* well-formed timestamp; it never returns NaN.
C20_UnparsableGivesZero ==
  (codec.pc = "read" /\ ~codec.wellFormed) => codec.parsed = 0

\* ----------------------------------------------------------- canvas
\* The canvas of the graph of r: the size of its background colour source.
CanvasOf(r) ==
  LET bg == CHOOSE j \in 1..Len(h[r].filters) : h[r].filters[j].op = "color"
  IN  [width |-> h[r].filters[bg].args.width,
       height |-> h[r].filters[bg].args.height]

\* C21: getCanvasDimensions is total over the aspect-ratio tags: 1920x1080
\* for 16:9, 1080x1080 for 1:1, 1080x1350 for 4:5, 1080x1440 for 3:4,
\* 1080x1920 for 9:16 and for every other tag.
C21_CanvasPerTag ==
  \A r \in Reqs :
    Built(r) =>
      LET tag == h[r].body.aspectRatio
          canvas == CanvasOf(r)
      IN  /\ tag = "16:9" => canvas = [width |-> 1920, height |-> 1080]
          /\ tag = "1:1" => canvas = [width |-> 1080, height |-> 1080]
          /\ tag = "4:5" => canvas = [width |-> 1080, height |-> 1350]
          /\ tag = "3:4" => canvas = [width |-> 1080, height |-> 1440]
          /\ tag \notin {"16:9", "1:1", "4:5", "3:4"} =>
               canvas = [width |-> 1080, height |-> 1920]

\* A graph has been built for a tag that the switch does not name.
C21_Witness ==
  \E r \in Reqs :
    /\ Built(r)
    /\ h[r].body.aspectRatio = "7:7"
    /\ CanvasOf(r) = [width |-> 1080, height |-> 1920]

\* ------------------------------------------------------ font fallback
\* The image files of r that the engine reads: title, credit, captions.
ImagePaths(r) ==
  {Path(h[r].tempDir, "title.png", -1), Path(h[r].tempDir, "credit.png", -1)}
    \cup {Path(h[r].tempDir, "caption.png", i) :
            i \in 0..(Len(h[r].validatedCaptions) - 1)}

\* C22: a font that cannot be resolved never aborts the request:
\* createTextImage falls back to the generic system font and still returns
\* an image, so when the engine is invoked the title, the credit and every
\* caption have their image, their engine input and their overlay node.
C22_FontFailureFallsBack ==
  \A r \in Reqs :
    (Invoked(r) /\ ~fontOk) =>
      /\ \A path \in ImagePaths(r) :
           /\ HasFile(path)
           /\ FileAt(path).kind = "image"
           /\ FileAt(path).finalFontFamily = "Arial, sans-serif"
           /\ \E n \in 1..Len(h[r].inputs) : h[r].inputs[n] = path
      /\ Len(h[r].inputs) = 3 + Len(h[r].validatedCaptions)
      /\ Len(CaptionNodes(h[r].filters)) = Len(h[r].validatedCaptions)
      /\ \E j \in 1..Len(h[r].filters) : 1 \in InputRefs(h[r].filters[j])
      /\ \E j \in 1..Len(h[r].filters) : 2 \in InputRefs(h[r].filters[j])

\* No font could be loaded and the engine runs on a graph with a caption.
C22_Witness ==
  \E r \in Reqs :
    /\ Invoked(r)
    /\ ~fontOk
    /\ Len(h[r].validatedCaptions) > 0
    /\ FileAt(Path(h[r].tempDir, "caption.png", 0)).finalFontFamily = "Arial, sans-serif"

\* ------------------------------------- the rasterizer on its own
\* fontSize = 40, the default of createTextImage's options.
DefaultFontSize == 40

\* The number of words of a text given to createTextImage.
MaxWords == 3

\* The words of a text: the empty word left by a leading, trailing or
\* doubled space, and words of 1, 2 and 4 characters.
WrapWords == { <<>>, <<"a">>, <<"b", "b">>, <<"c", "c", "c", "c">> }

\* The widths of the image: room for 1, 3 and 5 characters.
WrapWidths == { k * (DefaultFontSize \div 2) : k \in {1, 3, 5} }

\* words.join(' ')
RECURSIVE JoinWords(_)
JoinWords(words) ==
  IF Len(words) = 1 THEN words[1]
  ELSE words[1] \o <<" ">> \o JoinWords(Tail(words))

WrapTexts == { JoinWords(w) : w \in UNION {[1..k -> WrapWords] : k \in 1..MaxWords} }

RasterInputs ==
  { [pc |-> "options", text |-> t, width |-> w, image |-> <<>>, again |-> <<>>] :
      t \in WrapTexts, w \in WrapWidths }

\* createTextImage({text, width}) with the default options.
CreateTextImage ==
  /\ raster.pc = "options"
  /\ raster' = [raster EXCEPT
                  !.pc = "drawn",
                  !.image = createTextImage(raster.text, raster.width,
                                            DefaultFontSize, "white",
                                            "Inter-Medium", fontOk)]
  /\ UNCHANGED <<h, dirs, files, videos, uuids, fontOk, client, tr, codec>>

\* createTextImage again, of each line of the image.
RewrapLines ==
  /\ raster.pc = "drawn"
  /\ raster' = [raster EXCEPT
                  !.pc = "rewrapped",
                  !.again = [n \in 1..Len(raster.image.lines) |->
                               createTextImage(raster.image.lines[n], raster.width,
                                               DefaultFontSize, "white",
                                               "Inter-Medium", fontOk).lines]]
  /\ UNCHANGED <<h, dirs, files, videos, uuids, fontOk, client, tr, codec>>

InitRaster ==
  /\ h = [r \in Reqs |-> Idle]
  /\ dirs = {}
  /\ files = {}
  /\ videos = {}
  /\ uuids = 0
  /\ fontOk \in BOOLEAN
  /\ client = NoClient
  /\ tr = NoTranscribe
  /\ codec = NoCodec
  /\ raster \in RasterInputs

NextRaster == CreateTextImage \/ RewrapLines

SpecRaster == InitRaster /\ [][NextRaster]_vars

\* ------------------------------------------------- wrap properties
\* Every line of the image is at most as wide as the image.
LinesFit ==
  \A n \in 1..Len(raster.image.lines) :
    MeasureText(raster.image.lines[n], DefaultFontSize) <= raster.width

\* C23: word wrapping is idempotent: when every line of the output is at
\* most maxWidth wide, wrapping each line again with the same maxWidth
\* returns that line, unbroken.
C23_RewrapKeepsLines ==
  (raster.pc = "rewrapped" /\ LinesFit) =>
    \A n \in 1..Len(raster.image.lines) :
      raster.again[n] = <<raster.image.lines[n]>>

\* A text was broken into two lines, one of them of two words, and its
\* lines were wrapped again.
C23_Witness ==
  /\ raster.pc = "rewrapped"
  /\ LinesFit
  /\ raster.image.lines = << <<"c", "c", "c", "c">>, <<"a", " ", "b", "b">> >>
  /\ raster.again[2] = << <<"a", " ", "b", "b">> >>

\* The words of the text, as the wrap reads them.
WordsOf(text) == Split(text, " ")

\* C24: the wrap breaks before a word only when the running line is
\* non-empty: for a text with at least one non-empty word no emitted line
\* is empty, and a word wider than maxWidth is a line of its own, unsplit.
C24_NoEmptyLine ==
  (raster.pc \in {"drawn", "rewrapped"}
     /\ \E n \in 1..Len(WordsOf(raster.text)) : WordsOf(raster.text)[n] # <<>>) =>
    /\ \A n \in 1..Len(raster.image.lines) : raster.image.lines[n] # <<>>
    /\ \A n \in 1..Len(WordsOf(raster.text)) :
         MeasureText(WordsOf(raster.text)[n], DefaultFontSize) > raster.width =>
           \E m \in 1..Len(raster.image.lines) :
             raster.image.lines[m] = WordsOf(raster.text)[n]

\* C28: createTextImage of an empty or whitespace-only string draws an
\* image of exactly one line, of height 1 x fontSize x 1.2 + 20 (and the
\* handler draws an empty title or credit in the transparent colour).
C28_BlankTextOneLine ==
  (raster.pc \in {"drawn", "rewrapped"} /\ IsBlank(raster.text)) =>
    /\ Len(raster.image.lines) = 1
    /\ raster.image.height10 = DefaultFontSize * 12 + 200

\* ------------------------------------------------ windows and images
\* C25: the enable window of the i-th caption overlay node is
\* [start_i, end_i] of the i-th validated caption in clip-relative
\* seconds, and the image at input 3+i is the image of that same caption.
C25_WindowAndImageOfSameCaption ==
  \A r \in Reqs :
    Invoked(r) =>
      LET nodes == CaptionNodes(h[r].filters)
          captions == h[r].validatedCaptions
      IN  /\ Len(nodes) = Len(captions)
          /\ \A i \in 1..Len(nodes) :
               /\ nodes[i].args.enable =
                    <<RelStart(r, captions[i]), RelEnd(r, captions[i])>>
               /\ InputRefs(nodes[i]) = {3 + (i - 1)}
               /\ FileAt(h[r].inputs[3 + i]).text = captions[i].text

\* The worked example: the captions (0.605, 1.375), (2.195, 2.775),
\* (4.705, 4.775) of a 10 s clip are the windows of the three nodes.
C25_Witness ==
  \E r \in Reqs :
    /\ Invoked(r)
    /\ ClipDuration(r) = 10 * Sec
    /\ LET nodes == CaptionNodes(h[r].filters)
       IN  /\ Len(nodes) = 3
           /\ nodes[1].args.enable = <<605 * TicksPerMs, 1375 * TicksPerMs>>
           /\ nodes[2].args.enable = <<2195 * TicksPerMs, 2775 * TicksPerMs>>
           /\ nodes[3].args.enable = <<4705 * TicksPerMs, 4775 * TicksPerMs>>
           /\ FileAt(h[r].inputs[5]).text = <<"y">>

\* ------------------------------------------------------- fail fast
\* The messages of the failures before the engine.
AssetFailures ==
  {"title image failed", "credit image failed", "caption image failed",
   "Video download failed"}

\* C26: the engine is invoked only after the title image, the credit
\* image, all k caption images and the download have been written; when
\* an image or the download fails the engine is never invoked and the
\* response is a failure.
C26_EngineOnlyWithAllAssets ==
  \A r \in Reqs :
    /\ Built(r) => Len(h[r].captionImages) = Len(h[r].validatedCaptions)
    /\ Invoked(r) =>
         /\ \A path \in ImagePaths(r) : HasFile(path)
         /\ HasFile(Path(h[r].tempDir, "downloaded_video.mp4", -1))
    /\ (h[r].response.status = 500 /\ h[r].response.details \in AssetFailures) =>
         /\ h[r].engineRuns = 0
         /\ h[r].filters = <<>>

\* The download failed after the title, the credit and a caption image
\* were written: the handler has finished with 500 and the engine never ran.
C26_Witness ==
  \E r \in Reqs :
    /\ Finished(r)
    /\ Len(h[r].captionImages) > 0
    /\ h[r].response.status = 500
    /\ h[r].response.details = "Video download failed"
    /\ h[r].engineRuns = 0

\* ------------------------------------------------- removal failure
\* C27: a failure to remove the scratch directory never changes the
\* response: the finally block leaves the response as the try or catch
\* block set it, and the success path answers 200 with the video's URL,
\* whether the removal succeeds or throws.
C27_RemovalNeverChangesResponse ==
  [][\A r \in Reqs :
       /\ (h[r].pc = "finally" /\ h'[r].pc = "done") =>
            h'[r].response = h[r].response
       /\ (h[r].pc = "cleanup" /\ h'[r].pc = "finally") =>
            h'[r].response = [status |-> 200, success |-> TRUE,
                              videoUrl |-> h[r].finalVideoName]]_vars

\* A request rejected with 400 has finished, its one removal attempted and
\* failed: the scratch directory is still there.
C27_Witness ==
  \E r \in Reqs :
    /\ Finished(r)
    /\ h[r].response.status = 400
    /\ h[r].rmAttempts = 1
    /\ h[r].tempDir \in dirs

\* ------------------------------------------------- rects in canvas
\* The rect lies entirely inside the canvas (y2 is twice y).
Inside(rect, canvas) ==
  /\ 0 <= rect.x
  /\ rect.x + rect.width <= canvas.width
  /\ 0 <= rect.y2
  /\ rect.y2 + 2 * rect.height <= 2 * canvas.height

\* The rect a ends above the top of the rect b.
Above(a, b) == a.y2 + 2 * a.height <= b.y2

\* The three rects of a style are inside the canvas.
RectsInside(style, canvas) ==
  /\ Inside(style.titlePosition, canvas)
  /\ Inside(style.captionPosition, canvas)
  /\ Inside(style.creditPosition, canvas)

\* The tags the client offers, and one it does not.
AspectRatioTags == {"16:9", "1:1", "4:5", "3:4", "9:16", "7:7"}

\* C29: for every aspect-ratio tag, when the request carries no rect
\* overrides, the title, caption and credit rects the server uses lie
\* inside the canvas of getCanvasDimensions for the tag; the rects of the
\* client's getDefaultSettings do too, title above caption above credit.
C29_DefaultRectsInsideCanvas ==
  /\ \A r \in Reqs :
       (Built(r) /\ h[r].body.overrides = <<>>) =>
         RectsInside(h[r].style, getCanvasDimensions(h[r].body.aspectRatio))
  /\ \A tag \in AspectRatioTags :
       LET style == getDefaultSettings(tag).style
       IN  /\ RectsInside(style, getCanvasDimensions(tag))
           /\ Above(style.titlePosition, style.captionPosition)
           /\ Above(style.captionPosition, style.creditPosition)


\* ------------------------------------------------- the saved clips
\* The ids of two saved clips, and the id that marks no clip.
ClipIds == {"a", "b"}

NoClipId == "null"

\* The saved clips: one that the server renders, one shorter than the
\* second the server asks for.
SavedClipOf(id) ==
  IF id = "a"
    THEN [start |-> 0, end |-> 3 * Sec,
          captions |-> <<Caption(Ts(1500), Ts(2500), <<"a">>)>>]
    ELSE [start |-> 0, end |-> Sec \div 2, captions |-> <<>>]

\* The Generate button of a clip is disabled only while the component's
\* generatingClipId is that clip's id.
GenerateDisabled(id) == client.generatingClipId = id

\* A click on the Generate button of a clip: handleGenerateVideo up to its
\* fetch. The clip is marked, its earlier video is forgotten, the request
\* is sent.
GenerateClicked(id, r) ==
  /\ client.pc = "clips"
  /\ ~GenerateDisabled(id)
  /\ h[r].pc = "idle"
  /\ \A q \in Reqs : q < r => h[q].pc # "idle"
  /\ LET clip == SavedClipOf(id)
         settings == getDefaultSettings("9:16")
         body == [youtubeUrl |-> "https://youtu.be/v",
                  startTime |-> clip.start,
                  endTime |-> clip.end,
                  captions |-> standardizeCaptions(clip.captions, clip.start),
                  aspectRatio |-> settings.aspectRatio,
                  title |-> settings.topText,
                  credit |-> settings.bottomText,
                  overrides |-> <<settings.style>>]
     IN  h' = [h EXCEPT ![r] = Incoming(body)]
  /\ client' = [client EXCEPT
                  !.generatingClipId = id,
                  !.generatedVideoUrls = [@ EXCEPT ![id] = -1],
                  !.calls = [@ EXCEPT ![r] = id]]
  /\ UNCHANGED <<dirs, files, videos, uuids, fontOk, tr, codec, raster>>

\* The rest of that call of handleGenerateVideo: the response has come,
\* the video of a success is kept, and the finally block unmarks.
GenerateSettled(id, r) ==
  /\ client.pc = "clips"
  /\ client.calls[r] = id
  /\ h[r].pc = "done"
  /\ client' = [client EXCEPT
                  !.generatingClipId = NoClipId,
                  !.generatedVideoUrls =
                     IF h[r].response.status = 200
                       THEN [@ EXCEPT ![id] = h[r].response.videoUrl]
                       ELSE @,
                  !.calls = [@ EXCEPT ![r] = NoClipId]]
  /\ UNCHANGED <<h, dirs, files, videos, uuids, fontOk, tr, codec, raster>>

\* The list of saved clips is shown; nothing is being generated.
InitClips ==
  /\ h = [r \in Reqs |-> Idle]
  /\ dirs = {}
  /\ files = {}
  /\ videos = {}
  /\ uuids = 0
  /\ fontOk \in BOOLEAN
  /\ client = [pc |-> "clips", generatingClipId |-> NoClipId,
               generatedVideoUrls |-> [id \in ClipIds |-> -1],
               calls |-> [r \in Reqs |-> NoClipId]]
  /\ tr = NoTranscribe
  /\ codec = NoCodec
  /\ raster = NoRaster

NextClips ==
  \/ \E id \in ClipIds, r \in Reqs : GenerateClicked(id, r)
  \/ \E id \in ClipIds, r \in Reqs : GenerateSettled(id, r)
  \/ \E r \in Reqs : Post(r)

SpecClips == InitClips /\ [][NextClips]_vars

\* The clips with a call of handleGenerateVideo waiting for its response.
ClipsInFlight == {client.calls[r] : r \in Reqs} \ {NoClipId}

\* C30: in the list of saved clips, a clip whose request is in flight is
\* the one generatingClipId names, so its Generate button is disabled,
\* whatever the order of the clicks and the responses of two clips.
C30_InFlightClipMarked ==
  client.pc = "clips" => \A id \in ClipsInFlight : GenerateDisabled(id)

====
